---- MODULE Spec2Model ----
(***************************************************************************)
(* A model of schemapi's JSONSchemaTraitlets wrapper                       *)
(* (src/schemapi/traitlets.py): reference resolution, definition           *)
(* discovery, object/trait classification, extractor dispatch with its     *)
(* per-instance cache, and import aggregation.                             *)
(*                                                                         *)
(* Python strings are sequences of one-character strings, so that split,   *)
(* lower and the lexical order are computed and not assumed.  A JSON value *)
(* is a tagged record; a schema mapping is identified by its path from the *)
(* document root, which stands for Python object identity ("is").          *)
(***************************************************************************)
EXTENDS Integers, Sequences, FiniteSets, TLC

VARIABLES doc, objs, nodes, checked, nextId, ret

vars == <<doc, objs, nodes, checked, nextId, ret>>

(***************************************************************************)
(* Bounds of the model.                                                    *)
(***************************************************************************)
\* wrapper instances alive at once (the root wrapper included)
MaxNodes == 3
\* depth of the interpreter's call stack, counted in nested property reads
RecursionLimit == 5

(***************************************************************************)
(* Strings.                                                                *)
(***************************************************************************)
\* the characters the model uses, in ASCII order
Ascii == <<" ", "#", "$", "-", ".", "/", "0", "A", "B", "F", "O", "R", "T",
           "_", "a", "b", "c", "d", "e", "f", "g", "i", "j", "l", "m", "n",
           "o", "p", "r", "s", "t", "u", "y", "z", "~">>

AsciiCode ==
  [c \in {Ascii[i] : i \in 1..Len(Ascii)} |-> CHOOSE i \in 1..Len(Ascii) : Ascii[i] = c]

Code(c) == AsciiCode[c]

UpperChars == <<"A", "B", "F", "O", "R", "T">>
LowerChars == <<"a", "b", "f", "o", "r", "t">>

\* str.lower() on one character
LowerChar(c) ==
  IF \E i \in 1..Len(UpperChars) : UpperChars[i] = c
  THEN LowerChars[CHOOSE i \in 1..Len(UpperChars) : UpperChars[i] = c]
  ELSE c

\* str.lower()
Lower(s) == [i \in 1..Len(s) |-> LowerChar(s[i])]

\* the order Python's sorted() puts two strings in: s < t
RECURSIVE StrLess(_, _)
StrLess(s, t) ==
  IF t = <<>> THEN FALSE
  ELSE IF s = <<>> THEN TRUE
  ELSE IF s[1] # t[1] THEN Code(s[1]) < Code(t[1])
  ELSE StrLess(Tail(s), Tail(t))

\* str.split('/'): "a//b" gives ["a", "", "b"], "" gives [""]
RECURSIVE SplitFrom(_, _)
SplitFrom(s, cur) ==
  IF s = <<>> THEN <<cur>>
  ELSE IF s[1] = "/" THEN <<cur>> \o SplitFrom(Tail(s), <<>>)
  ELSE SplitFrom(Tail(s), Append(cur, s[1]))

Split(s) == SplitFrom(s, <<>>)

\* '/'.join(segments)
RECURSIVE Join(_)
Join(segs) ==
  IF Len(segs) = 0 THEN <<>>
  ELSE IF Len(segs) = 1 THEN segs[1]
  ELSE segs[1] \o <<"/">> \o Join(Tail(segs))

\* sorted(set of strings): ascending sequence
RECURSIVE SortedStrs(_)
SortedStrs(S) ==
  IF S = {} THEN <<>>
  ELSE LET m == CHOOSE x \in S : \A y \in S : y = x \/ StrLess(x, y)
       IN  <<m>> \o SortedStrs(S \ {m})

\* sorted(set of strings, reverse=True)
RECURSIVE SortedStrsReverse(_)
SortedStrsReverse(S) ==
  IF S = {} THEN <<>>
  ELSE LET m == CHOOSE x \in S : \A y \in S : y = x \/ StrLess(y, x)
       IN  <<m>> \o SortedStrsReverse(S \ {m})

Range(q) == {q[i] : i \in 1..Len(q)}

sHash == <<"#">>
sDefinitions == <<"d", "e", "f", "i", "n", "i", "t", "i", "o", "n", "s">>
sProperties == <<"p", "r", "o", "p", "e", "r", "t", "i", "e", "s">>
sAdditionalProperties ==
  <<"a", "d", "d", "i", "t", "i", "o", "n", "a", "l",
    "P", "r", "o", "p", "e", "r", "t", "i", "e", "s">>
sType == <<"t", "y", "p", "e">>
sEnum == <<"e", "n", "u", "m">>
sRef == <<"$", "r", "e", "f">>
sAnyOf == <<"a", "n", "y", "O", "f">>
sAllOf == <<"a", "l", "l", "O", "f">>
sOneOf == <<"o", "n", "e", "O", "f">>
sObject == <<"o", "b", "j", "e", "c", "t">>
sString == <<"s", "t", "r", "i", "n", "g">>
sFoo == <<"F", "o", "o">>
sfoo == <<"f", "o", "o">>
sBar == <<"B", "a", "r">>
sBaz == <<"B", "a", "z">>
sRed == <<"r", "e", "d">>
sA == <<"a">>
sB == <<"b">>

(***************************************************************************)
(* JSON values.                                                            *)
(***************************************************************************)
NoMap == [k \in {} |-> 0]

Map(f) == [kind |-> "map", map |-> f, list |-> <<>>, str |-> <<>>, bool |-> FALSE]
List(q) == [kind |-> "list", map |-> NoMap, list |-> q, str |-> <<>>, bool |-> FALSE]
Str(s) == [kind |-> "str", map |-> NoMap, list |-> <<>>, str |-> s, bool |-> FALSE]
Bool(b) == [kind |-> "bool", map |-> NoMap, list |-> <<>>, str |-> <<>>, bool |-> b]

EmptyMap == Map(NoMap)

\* a mapping with one, two, three entries
Map1(k1, v1) == Map([k \in {k1} |-> v1])
Map2(k1, v1, k2, v2) == Map([k \in {k1, k2} |-> IF k = k1 THEN v1 ELSE v2])
Map3(k1, v1, k2, v2, k3, v3) ==
  Map([k \in {k1, k2, k3} |-> IF k = k1 THEN v1 ELSE IF k = k2 THEN v2 ELSE v3])

\* one step of a path into the document: a mapping key, or a list index (idx > 0)
KeyStep(k) == [key |-> k, idx |-> 0]
IdxStep(i) == [key |-> <<>>, idx |-> i]

Step(v, st) == IF st.idx = 0 THEN v.map[st.key] ELSE v.list[st.idx]

\* the value a path leads to
RECURSIVE At(_, _)
At(v, path) == IF path = <<>> THEN v ELSE At(Step(v, path[1]), Tail(path))

\* the paths of all mappings inside v (v itself included when it is one)
RECURSIVE MapPaths(_)
MapPaths(v) ==
  CASE v.kind = "map" ->
         {<<>>} \cup UNION {{<<KeyStep(k)>> \o p : p \in MapPaths(v.map[k])} :
                            k \in DOMAIN v.map}
    [] v.kind = "list" ->
         UNION {{<<IdxStep(i)>> \o p : p \in MapPaths(v.list[i])} :
                i \in 1..Len(v.list)}
    [] OTHER -> {}

(***************************************************************************)
(* The wrapped schema objects (self.schemaobj) and the wrappers.           *)
(*                                                                         *)
(* objs is the heap of schema objects: schema is the path of the wrapped   *)
(* value (its identity), name is <<>> for None and <<s>> for the string s, *)
(* root is the heap index of the root object, id the object's own index    *)
(* (0 for an object that lives only during one property read).             *)
(* nodes is the heap of JSONSchemaTraitlets wrappers: obj is the index of  *)
(* the wrapped schema object, cache is _trait_extractor (<<>> for None).   *)
(***************************************************************************)
None == <<>>
Some(s) == <<s>>

\* Python truth of an optional string: None and "" are false
Truthy(nm) == nm # None /\ nm[1] # <<>>

RootName == <<"R", "o", "o", "t">>

\* schemaobj.initialize_child(schema, name=name): the child keeps the root
ObjInitializeChild(o, p, nm, id) ==
  [schema |-> p, name |-> nm, root |-> o.root, id |-> id]

\* schemaobj.root
ObjRoot(o) == objs[o.root]

\* schemaobj.definitions: the definitions of the root's document
ObjDefinitions(o) ==
  LET r == At(doc, ObjRoot(o).schema)
  IN  IF r.kind = "map" /\ sDefinitions \in DOMAIN r.map
         /\ r.map[sDefinitions].kind = "map"
      THEN r.map[sDefinitions].map
      ELSE NoMap

\* utils.regularize_name: every run of characters that are not legal in an
\* identifier becomes one "_", and a leading digit gets a "_" in front
IdentChars == {"0", "A", "B", "F", "O", "R", "T", "_", "a", "b", "c", "d", "e",
               "f", "g", "i", "j", "l", "m", "n", "o", "p", "r", "s", "t", "u", "y",
               "z"}

RECURSIVE RegularizeFrom(_, _)
RegularizeFrom(s, inRun) ==
  IF s = <<>> THEN <<>>
  ELSE IF s[1] \in IdentChars THEN <<s[1]>> \o RegularizeFrom(Tail(s), FALSE)
  ELSE IF inRun THEN RegularizeFrom(Tail(s), TRUE)
  ELSE <<"_">> \o RegularizeFrom(Tail(s), TRUE)

regularize_name(s) ==
  LET r == RegularizeFrom(s, FALSE)
  IN  IF r # <<>> /\ r[1] = "0" THEN <<"_">> \o r ELSE r

\* the schema object a wrapper wraps
ObjOf(n) == objs[nodes[n].obj]

\* self.schema
Schema(o) == At(doc, o.schema)

\* is_root: self.schemaobj.root is self.schemaobj
is_root(o) == o.root = o.id

\* substring test, "x in s" for two strings
IsSubstring(x, s) ==
  \E i \in 0..(Len(s) - Len(x)) : SubSeq(s, i + 1, i + Len(x)) = x

\* __contains__: key in self.schema
Contains(o, key) ==
  LET v == Schema(o)
  IN  CASE v.kind = "map" -> key \in DOMAIN v.map
        [] v.kind = "str" -> IsSubstring(key, v.str)
        [] v.kind = "list" ->
             \E i \in 1..Len(v.list) : v.list[i].kind = "str" /\ v.list[i].str = key
        [] OTHER -> FALSE

\* is_reference
is_reference(o) == Contains(o, sRef)

(***************************************************************************)
(* get_reference.  The result of a property read or a call is a record     *)
(* whose out field is "ok" or the name of the exception raised.            *)
(***************************************************************************)
NoObj == [schema |-> <<>>, name |-> None, root |-> 0, id |-> 0]
Raise(e) == [out |-> e, obj |-> NoObj]
Return(o) == [out |-> "ok", obj |-> o]

\* the loop "for key in path[1:]: schema = schema[key]" from value v at path p
RECURSIVE Descend(_, _, _)
Descend(v, p, keys) ==
  IF keys = <<>> THEN [out |-> "ok", path |-> p]
  ELSE IF v.kind = "map"
       THEN IF keys[1] \in DOMAIN v.map
            THEN Descend(v.map[keys[1]], Append(p, KeyStep(keys[1])), Tail(keys))
            ELSE [out |-> "KeyError", path |-> p]
       \* a list, a string, a boolean indexed by a string
       ELSE [out |-> "TypeError", path |-> p]

\* the variant of get_reference that walks the receiver's own schema
GetReferenceFromSelf(o, ref) ==
  IF ref = <<>> THEN Raise("ValueError")
  ELSE LET path == Split(ref)
           name == path[Len(path)]
       IN  IF path[1] # sHash THEN Raise("ValueError")
           ELSE IF Len(path) = 1 \/ path[2] = <<>> THEN Return(ObjRoot(o))
           ELSE LET d == Descend(Schema(o), o.schema, Tail(path))
                IN  CASE d.out = "KeyError" -> Raise("ValueError")
                      [] d.out = "TypeError" -> Raise("TypeError")
                      [] OTHER -> Return(ObjInitializeChild(o, d.path, Some(name), 0))

\* get_reference(ref): the schema object of the node it returns
GetReference(o, ref) ==
  IF ref = <<>> THEN Raise("ValueError")
  ELSE LET path == Split(ref)
           name == path[Len(path)]
       IN  IF path[1] # sHash THEN Raise("ValueError")
           ELSE IF Len(path) = 1 \/ path[2] = <<>> THEN Return(ObjRoot(o))
           ELSE LET d == Descend(Schema(ObjRoot(o)), ObjRoot(o).schema, Tail(path))
                IN  CASE d.out = "KeyError" -> Raise("ValueError")
                      [] d.out = "TypeError" -> Raise("TypeError")
                      [] OTHER -> Return(ObjInitializeChild(o, d.path, Some(name), 0))

\* self.schema['$ref'], a string in every document of the model
RefOf(o) == Schema(o).map[sRef].str

\* wrapped_ref()
wrapped_ref(o) == GetReference(o, RefOf(o))

(***************************************************************************)
(* classname and is_named_object.                                          *)
(***************************************************************************)
StrResult(e, s) == [out |-> e, str |-> s]

RECURSIVE classname(_, _)
classname(o, depth) ==
  IF depth = 0 THEN StrResult("RecursionError", <<>>)
  ELSE IF Truthy(o.name) THEN StrResult("ok", regularize_name(o.name[1]))
  ELSE IF is_root(o) THEN StrResult("ok", RootName)
  ELSE IF is_reference(o)
       THEN LET r == wrapped_ref(o)
            IN  IF r.out # "ok" THEN StrResult(r.out, <<>>)
                ELSE classname(r.obj, depth - 1)
  ELSE StrResult("NotImplementedError", <<>>)

BoolResult(e, b) == [out |-> e, bool |-> b]

is_named_object(o) ==
  LET c == classname(o, RecursionLimit)
  IN  CASE c.out = "ok" -> BoolResult("ok", c.str # <<>>)
        [] c.out = "NotImplementedError" -> BoolResult("ok", FALSE)
        [] OTHER -> BoolResult(c.out, FALSE)

(***************************************************************************)
(* Classification: is_trait and is_object.  depth is what is left of the   *)
(* interpreter's call stack; a read that finds none left raises            *)
(* RecursionError.                                                         *)
(***************************************************************************)
\* __getattr__('type'): self.schema.get('type', 'object')
TypeIsObject(o) ==
  LET v == Schema(o)
  IN  IF sType \in DOMAIN v.map
      THEN v.map[sType].kind = "str" /\ v.map[sType].str = sObject
      ELSE TRUE

\* initialize_child(spec) for the i-th spec of self[key]
Branch(o, key, i) ==
  ObjInitializeChild(o, o.schema \o <<KeyStep(key), IdxStep(i)>>, None, 0)

BranchCount(o, key) == Len(Schema(o).map[key].list)

RECURSIVE is_trait(_, _)
RECURSIVE AnyIsTrait(_, _, _, _)

\* any(self.initialize_child(spec).is_trait for spec in self[key]), from the
\* i-th spec on: the first true branch ends the scan, and so does an error
AnyIsTrait(o, key, i, depth) ==
  IF i > BranchCount(o, key) THEN BoolResult("ok", FALSE)
  ELSE LET r == is_trait(Branch(o, key, i), depth - 1)
       IN  IF r.out # "ok" THEN r
           ELSE IF r.bool THEN BoolResult("ok", TRUE)
           ELSE AnyIsTrait(o, key, i + 1, depth)

is_trait(o, depth) ==
  IF depth = 0 THEN BoolResult("RecursionError", FALSE)
  ELSE IF Contains(o, sProperties) THEN BoolResult("ok", FALSE)
  \* self.type on a schema that is no mapping: it has no get()
  ELSE IF Schema(o).kind # "map" THEN BoolResult("AttributeError", FALSE)
  ELSE IF ~TypeIsObject(o) THEN BoolResult("ok", TRUE)
  ELSE IF Contains(o, sEnum) THEN BoolResult("ok", TRUE)
  ELSE IF Contains(o, sRef)
       THEN LET r == wrapped_ref(o)
            IN  IF r.out # "ok" THEN BoolResult(r.out, FALSE)
                ELSE is_trait(r.obj, depth - 1)
  ELSE IF Contains(o, sAnyOf) THEN AnyIsTrait(o, sAnyOf, 1, depth)
  ELSE IF Contains(o, sAllOf) THEN AnyIsTrait(o, sAllOf, 1, depth)
  ELSE IF Contains(o, sOneOf) THEN AnyIsTrait(o, sOneOf, 1, depth)
  ELSE BoolResult("ok", FALSE)

RECURSIVE is_object(_, _)
RECURSIVE AllIsObject(_, _, _, _)

\* all(self.initialize_child(spec).is_object for spec in self[key]), from the
\* i-th spec on: the first false branch ends the scan, and so does an error
AllIsObject(o, key, i, depth) ==
  IF i > BranchCount(o, key) THEN BoolResult("ok", TRUE)
  ELSE LET r == is_object(Branch(o, key, i), depth - 1)
       IN  IF r.out # "ok" THEN r
           ELSE IF ~r.bool THEN BoolResult("ok", FALSE)
           ELSE AllIsObject(o, key, i + 1, depth)

is_object(o, depth) ==
  IF depth = 0 THEN BoolResult("RecursionError", FALSE)
  ELSE IF Contains(o, sProperties) THEN BoolResult("ok", TRUE)
  ELSE IF Contains(o, sRef)
       THEN IF Schema(o).kind # "map" THEN BoolResult("TypeError", FALSE)
            ELSE LET r == wrapped_ref(o)
                 IN  IF r.out # "ok" THEN BoolResult(r.out, FALSE)
                     ELSE is_object(r.obj, depth - 1)
  ELSE IF Contains(o, sAnyOf)
       THEN IF Schema(o).kind # "map" THEN BoolResult("TypeError", FALSE)
            ELSE AllIsObject(o, sAnyOf, 1, depth)
  ELSE IF Contains(o, sAllOf)
       THEN IF Schema(o).kind # "map" THEN BoolResult("TypeError", FALSE)
            ELSE AllIsObject(o, sAllOf, 1, depth)
  ELSE IF Contains(o, sOneOf)
       THEN IF Schema(o).kind # "map" THEN BoolResult("TypeError", FALSE)
            ELSE AllIsObject(o, sOneOf, 1, depth)
  ELSE BoolResult("ok", FALSE)

(***************************************************************************)
(* Definition discovery.                                                   *)
(***************************************************************************)
\* OrderedDict.__setitem__: a key already present keeps its place
DictSet(d, k, v) ==
  IF \E i \in 1..Len(d) : d[i].key = k
  THEN [i \in 1..Len(d) |-> IF d[i].key = k THEN [key |-> k, val |-> v] ELSE d[i]]
  ELSE Append(d, [key |-> k, val |-> v])

\* OrderedDict(pairs)
RECURSIVE OrderedDict(_)
OrderedDict(pairs) ==
  IF pairs = <<>> THEN <<>>
  ELSE LET n == Len(pairs)
       IN  DictSet(OrderedDict(SubSeq(pairs, 1, n - 1)), pairs[n].key, pairs[n].val)

DictKeys(d) == {d[i].key : i \in 1..Len(d)}
DictGet(d, k) == d[CHOOSE i \in 1..Len(d) : d[i].key = k].val

\* all_definitions: the names of the definitions, sorted
all_definitions(o) == SortedStrs(DOMAIN ObjDefinitions(o))

\* the identity of definitions[name]
DefinitionPath(o, name) ==
  ObjRoot(o).schema \o <<KeyStep(sDefinitions), KeyStep(name)>>

\* wrapped_definitions(): the i-th definition in sorted order is wrapped as
\* the wrapper with heap index base + i
wrapped_definitions(o, base) ==
  LET names == all_definitions(o)
  IN  OrderedDict([i \in 1..Len(names) |->
                     [key |-> Lower(names[i]), val |-> base + i]])

(***************************************************************************)
(* The documents.                                                          *)
(***************************************************************************)
RefTo(name) == Str(Join(<<sHash, sDefinitions, name>>))
StringSchema == Map1(sType, Str(sString))
ObjectSchema == Map1(sProperties, EmptyMap)

\* the scenario of the specification: an enum definition and a property
\* that refers to it
DocEnum ==
  Map3(sDefinitions, Map1(sFoo, Map1(sEnum, List(<<Str(sRed)>>))),
       sProperties, Map1(sA, Map1(sRef, RefTo(sFoo))),
       sType, Str(sObject))

\* two definitions whose names differ only in letter case
DocCase ==
  Map1(sDefinitions, Map2(sFoo, StringSchema, sfoo, ObjectSchema))

\* a definition that refers to a definition the document does not have
DocDangling ==
  Map1(sDefinitions,
       Map2(sFoo, Map1(sAnyOf, List(<<StringSchema, Map1(sRef, RefTo(sBaz))>>)),
            sBar, Map1(sRef, RefTo(sFoo))))

GraphDocs == {DocEnum, DocCase}

\* the reference strings handed to get_reference
Refs ==
  { <<>>,
    sHash,
    Join(<<sHash, sDefinitions, sFoo>>),
    Join(<<sHash, sDefinitions, sBaz>>),
    Join(<<sHash, <<>>, sDefinitions, sFoo>>),
    Join(<<sHash, sDefinitions, sFoo, sEnum, sRed>>),
    Join(<<sDefinitions, sFoo>>),
    sFoo }

\* the names handed to initialize_child
ChildNames == {None, Some(sBar)}

(***************************************************************************)
(* The state after construction: the root wrapper of a loaded document.    *)
(***************************************************************************)
NoRet ==
  [op |-> "none", self |-> 0, arg |-> <<>>, out |-> "ok", node |-> 0,
   dict |-> <<>>, bool |-> FALSE, str |-> <<>>, keys |-> {}, checks |-> <<>>,
   rule |-> None, list |-> <<>>, ext |-> <<>>, obj |-> NoObj]

RootObj == [schema |-> <<>>, name |-> None, root |-> 1, id |-> 1]
NewNode(i) == [obj |-> i, cache |-> None]

InitWith(docs) ==
  /\ doc \in docs
  /\ objs = <<RootObj>>
  /\ nodes = <<NewNode(1)>>
  /\ checked = NoMap
  /\ nextId = 1
  /\ ret = NoRet

\* the sub-schemas of a node: the mappings strictly inside its schema
SubSchemas(o) == {o.schema \o q : q \in MapPaths(Schema(o)) \ {<<>>}}

\* initialize_child(schema, name)
InitializeChild(n, p, nm) ==
  /\ Len(nodes) < MaxNodes
  /\ objs' = Append(objs, ObjInitializeChild(ObjOf(n), p, nm, Len(objs) + 1))
  /\ nodes' = Append(nodes, NewNode(Len(objs) + 1))
  /\ ret' = [NoRet EXCEPT !.op = "initialize_child", !.self = n,
                          !.node = Len(nodes) + 1]
  /\ UNCHANGED <<doc, checked, nextId>>

\* get_reference(ref).  The caller keeps the node it gets while fewer than
\* MaxNodes wrappers are alive, and drops it otherwise (an object that is
\* dropped has id 0, unless it is the root object).
GetReferenceCall(n, ref) ==
  LET r == GetReference(ObjOf(n), ref)
      call == [NoRet EXCEPT !.op = "get_reference", !.self = n, !.arg = ref]
  IN  IF r.out # "ok"
      THEN /\ ret' = [call EXCEPT !.out = r.out]
           /\ UNCHANGED <<doc, objs, nodes, checked, nextId>>
      ELSE IF Len(nodes) >= MaxNodes
      THEN /\ ret' = [call EXCEPT !.obj = r.obj]
           /\ UNCHANGED <<doc, objs, nodes, checked, nextId>>
      ELSE IF r.obj.id # 0
      \* self.__class__(self.root): a new wrapper of the root object
      THEN /\ nodes' = Append(nodes, NewNode(r.obj.id))
           /\ objs' = objs
           /\ ret' = [call EXCEPT !.node = Len(nodes) + 1, !.obj = r.obj]
           /\ UNCHANGED <<doc, checked, nextId>>
      ELSE /\ objs' = Append(objs, [r.obj EXCEPT !.id = Len(objs) + 1])
           /\ nodes' = Append(nodes, NewNode(Len(objs) + 1))
           /\ ret' = [call EXCEPT !.node = Len(nodes) + 1,
                                  !.obj = [r.obj EXCEPT !.id = Len(objs) + 1]]
           /\ UNCHANGED <<doc, checked, nextId>>

\* wrapped_definitions()
WrappedDefinitionsCall(n) ==
  LET o == ObjOf(n)
      names == all_definitions(o)
      k == Len(names)
  IN  /\ Len(nodes) + k <= MaxNodes
      /\ objs' = objs \o [i \in 1..k |->
                  ObjInitializeChild(o, DefinitionPath(o, names[i]),
                                     Some(names[i]), Len(objs) + i)]
      /\ nodes' = nodes \o [i \in 1..k |-> NewNode(Len(objs) + i)]
      /\ ret' = [NoRet EXCEPT !.op = "wrapped_definitions", !.self = n,
                              !.dict = wrapped_definitions(o, Len(nodes))]
      /\ UNCHANGED <<doc, checked, nextId>>

\* is_named_object
IsNamedObjectCall(n) ==
  LET r == is_named_object(ObjOf(n))
  IN  /\ ret' = [NoRet EXCEPT !.op = "is_named_object", !.self = n,
                              !.out = r.out, !.bool = r.bool]
      /\ UNCHANGED <<doc, objs, nodes, checked, nextId>>

\* classname
ClassnameCall(n) ==
  LET r == classname(ObjOf(n), RecursionLimit)
  IN  /\ ret' = [NoRet EXCEPT !.op = "classname", !.self = n,
                              !.out = r.out, !.str = r.str]
      /\ UNCHANGED <<doc, objs, nodes, checked, nextId>>

InitGraph == InitWith(GraphDocs)

NextGraph ==
  \/ \E n \in DOMAIN nodes : \E p \in SubSchemas(ObjOf(n)) : \E nm \in ChildNames :
       InitializeChild(n, p, nm)
  \/ \E n \in DOMAIN nodes : \E ref \in Refs : GetReferenceCall(n, ref)
  \/ \E n \in DOMAIN nodes : WrappedDefinitionsCall(n)

SpecGraph == InitGraph /\ [][NextGraph]_vars

(***************************************************************************)
(* Naming: classname and is_named_object on the nodes of a document, one   *)
(* of which holds a $ref to a definition the document does not have.       *)
(***************************************************************************)
NamingDocs == {DocEnum, DocDangling}

NamingRefs == {sHash, Join(<<sHash, sDefinitions, sFoo>>)}

InitNaming == InitWith(NamingDocs)

NextNaming ==
  \/ \E n \in DOMAIN nodes : \E p \in SubSchemas(ObjOf(n)) : \E nm \in ChildNames :
       InitializeChild(n, p, nm)
  \/ \E n \in DOMAIN nodes : \E ref \in NamingRefs : GetReferenceCall(n, ref)
  \/ \E n \in DOMAIN nodes : IsNamedObjectCall(n)
  \/ \E n \in DOMAIN nodes : ClassnameCall(n)

SpecNaming == InitNaming /\ [][NextNaming]_vars

(***************************************************************************)
(* Claims about definition discovery and reference resolution.             *)
(***************************************************************************)
\* the definitions of the document, read from the document itself
DocDefinitions ==
  IF sDefinitions \in DOMAIN doc.map THEN doc.map[sDefinitions].map ELSE NoMap

\* C1: after wrapped_definitions(), every definition name D of the root has
\* an entry keyed by the lower-cased D whose node has name D, wraps
\* definitions[D] and has classname regularize(D), so that there are as many
\* entries as definitions.
C1_EveryDefinitionHasItsEntry ==
  ret.op = "wrapped_definitions" =>
    /\ \A D \in DOMAIN DocDefinitions :
         /\ Lower(D) \in DictKeys(ret.dict)
         /\ LET c == ObjOf(DictGet(ret.dict, Lower(D)))
            IN  /\ c.name = Some(D)
                /\ c.schema = <<KeyStep(sDefinitions), KeyStep(D)>>
                /\ classname(c, RecursionLimit) = StrResult("ok", regularize_name(D))
    /\ Len(ret.dict) = Cardinality(DOMAIN DocDefinitions)

\* C2: get_reference on any node resolves against the root's document:
\* "#/definitions/D" returns a node that wraps the very mapping
\* document["definitions"][D] and whose root is the document root, and "#"
\* returns a node that is the root.
C2_ReferenceResolvesAgainstRoot ==
  ret.op = "get_reference" =>
    /\ \A D \in DOMAIN DocDefinitions :
         ret.arg = Join(<<sHash, sDefinitions, D>>) =>
           /\ ret.out = "ok"
           /\ ret.obj.schema = <<KeyStep(sDefinitions), KeyStep(D)>>
           /\ ret.obj.root = 1
           /\ objs[1].schema = <<>>
    /\ ret.arg = sHash =>
         /\ ret.out = "ok"
         /\ is_root(ret.obj)
         /\ ret.obj.schema = <<>>

\* C2 witness: the third wrapper, which wraps neither the root nor the
\* definition Foo, resolves "#/definitions/Foo".
C2_Witness ==
  /\ ret.op = "get_reference"
  /\ ret.arg = Join(<<sHash, sDefinitions, sFoo>>)
  /\ ret.out = "ok"
  /\ ret.self > 2
  /\ ObjOf(ret.self).schema # <<>>
  /\ ObjOf(ret.self).schema # <<KeyStep(sDefinitions), KeyStep(sFoo)>>

\* whether the JSON pointer made of the segments leads somewhere in v
RECURSIVE PointerResolves(_, _)
PointerResolves(v, segs) ==
  \/ segs = <<>>
  \/ /\ v.kind = "map"
     /\ segs[1] \in DOMAIN v.map
     /\ PointerResolves(v.map[segs[1]], Tail(segs))

\* C3: get_reference(ref) fails with ValueError, and with no other error,
\* for every ref that is empty, whose leading segment is not "#", or with a
\* segment after "#" that the root document does not have at that position.
C3_BadReferenceIsValueError ==
  (/\ ret.op = "get_reference"
   /\ \/ ret.arg = <<>>
      \/ Split(ret.arg)[1] # sHash
      \/ ~PointerResolves(doc, Tail(Split(ret.arg))))
  => (ret.out = "ValueError" /\ ret.obj = NoObj)

\* C8: is_named_object returns a boolean for every node, true exactly when
\* reading classname succeeds.
C8_IsNamedObjectIsTotal ==
  ret.op = "is_named_object" =>
    /\ ret.out = "ok"
    /\ ret.bool = (classname(ObjOf(ret.self), RecursionLimit).out = "ok")

(***************************************************************************)
(* Classification of the nodes of a family of documents in which every     *)
(* $ref resolves.  The root holds the definitions Bar (an object), Baz (a  *)
(* string) and Foo, which ranges over the combinations of the keywords.    *)
(***************************************************************************)
\* a keyword is <<>> when absent and <<value>> when present
ShapeKeys(props, type, enum, ref, any, all, one) ==
  {k \in {sProperties, sType, sEnum, sRef, sAnyOf, sAllOf, sOneOf} :
     CASE k = sProperties -> props # <<>>
       [] k = sType -> type # <<>>
       [] k = sEnum -> enum # <<>>
       [] k = sRef -> ref # <<>>
       [] k = sAnyOf -> any # <<>>
       [] k = sAllOf -> all # <<>>
       [] OTHER -> one # <<>>}

Shape(props, type, enum, ref, any, all, one) ==
  Map([k \in ShapeKeys(props, type, enum, ref, any, all, one) |->
         CASE k = sProperties -> props[1]
           [] k = sType -> type[1]
           [] k = sEnum -> enum[1]
           [] k = sRef -> ref[1]
           [] k = sAnyOf -> any[1]
           [] k = sAllOf -> all[1]
           [] OTHER -> one[1]])

PropsChoices == {<<>>, <<EmptyMap>>}
TypeChoices == {<<>>, <<Str(sObject)>>, <<Str(sString)>>}
EnumChoices == {<<>>, <<List(<<Str(sRed)>>)>>}
RefChoices == {<<>>, <<RefTo(sBar)>>, <<RefTo(sBaz)>>, <<RefTo(sFoo)>>, <<Str(sHash)>>}
UnionChoices ==
  {<<>>, <<List(<<>>)>>, <<List(<<ObjectSchema>>)>>, <<List(<<StringSchema>>)>>,
   <<List(<<Map1(sRef, RefTo(sFoo))>>)>>}

\* the keywords outside the unions, in every combination
ScalarShapes ==
  {Shape(p, t, e, r, <<>>, <<>>, <<>>) :
     p \in PropsChoices, t \in TypeChoices, e \in EnumChoices, r \in RefChoices}

\* the union keywords, in every combination
UnionShapes ==
  {Shape(<<>>, <<>>, <<>>, <<>>, a, b, c) :
     a \in UnionChoices, b \in UnionChoices, c \in UnionChoices}

\* a union beside a non-object type or an enum, a union of unlike branches,
\* and a union whose first branch decides before a cyclic one is read
MixedShapes ==
  { Shape(<<>>, <<Str(sString)>>, <<>>, <<>>, <<List(<<>>)>>, <<>>, <<>>),
    Shape(<<>>, <<>>, <<List(<<Str(sRed)>>)>>, <<>>, <<>>, <<>>, <<List(<<ObjectSchema>>)>>),
    Shape(<<>>, <<>>, <<>>, <<>>, <<List(<<ObjectSchema, StringSchema>>)>>, <<>>, <<>>),
    Shape(<<>>, <<>>, <<>>, <<>>, <<List(<<StringSchema, Map1(sRef, RefTo(sFoo))>>)>>,
          <<>>, <<>>),
    Shape(<<>>, <<>>, <<>>, <<>>, <<>>, <<List(<<StringSchema, Map1(sRef, RefTo(sFoo))>>)>>,
          <<>>) }

DocWith(shape) ==
  Map1(sDefinitions, Map3(sFoo, shape, sBar, ObjectSchema, sBaz, StringSchema))

\* a root that refers to itself
DocSelf == Map1(sRef, Str(sHash))

ClassifyDocs ==
  {DocWith(x) : x \in ScalarShapes \cup UnionShapes \cup MixedShapes}
    \cup {DocSelf, DocEnum}

ClassifyRefs == {sHash, Join(<<sHash, sDefinitions, sFoo>>)}

\* is_trait
IsTraitCall(n) ==
  LET r == is_trait(ObjOf(n), RecursionLimit)
  IN  /\ ret' = [NoRet EXCEPT !.op = "is_trait", !.self = n,
                              !.out = r.out, !.bool = r.bool]
      /\ UNCHANGED <<doc, objs, nodes, checked, nextId>>

\* is_object
IsObjectCall(n) ==
  LET r == is_object(ObjOf(n), RecursionLimit)
  IN  /\ ret' = [NoRet EXCEPT !.op = "is_object", !.self = n,
                              !.out = r.out, !.bool = r.bool]
      /\ UNCHANGED <<doc, objs, nodes, checked, nextId>>

InitClassify == InitWith(ClassifyDocs)

NextClassify ==
  \/ \E n \in DOMAIN nodes : \E p \in SubSchemas(ObjOf(n)) : InitializeChild(n, p, None)
  \/ \E n \in DOMAIN nodes : \E ref \in ClassifyRefs : GetReferenceCall(n, ref)
  \/ \E n \in DOMAIN nodes : IsTraitCall(n)
  \/ \E n \in DOMAIN nodes : IsObjectCall(n)

SpecClassify == InitClassify /\ [][NextClassify]_vars

(***************************************************************************)
(* Claims about classification.                                            *)
(***************************************************************************)
IsTrue(r) == r.out = "ok" /\ r.bool

\* C6: is_trait and is_object are never both true of a node.
C6_NeverTraitAndObject ==
  \A n \in DOMAIN nodes :
    ~(IsTrue(is_trait(ObjOf(n), RecursionLimit))
        /\ IsTrue(is_object(ObjOf(n), RecursionLimit)))

\* C7: in a document whose references all resolve, cyclic ones included,
\* is_trait and is_object return a boolean and raise nothing.
C7_ClassificationReturns ==
  ret.op \in {"is_trait", "is_object"} => ret.out = "ok"

UnionKeys == {sAnyOf, sAllOf, sOneOf}

\* the decision table of is_trait, with a branch of any union keyword that
\* is present counting
TraitTable(o) ==
  IF Contains(o, sProperties) THEN FALSE
  ELSE IF ~TypeIsObject(o) THEN TRUE
  ELSE IF Contains(o, sEnum) THEN TRUE
  ELSE IF Contains(o, sRef) THEN IsTrue(is_trait(wrapped_ref(o).obj, RecursionLimit))
  ELSE \E key \in UnionKeys :
         /\ Contains(o, key)
         /\ \E i \in 1..BranchCount(o, key) :
              IsTrue(is_trait(Branch(o, key, i), RecursionLimit))

\* C10: whenever is_trait returns, it returns what the decision table says,
\* also on a node with more than one union keyword.
C10_IsTraitFollowsTable ==
  (ret.op = "is_trait" /\ ret.out = "ok") => ret.bool = TraitTable(ObjOf(ret.self))

(***************************************************************************)
(* Extractor dispatch.  The rules' check() methods belong to the rule set, *)
(* an external collaborator: what check() answers for a node is a function *)
(* of the node that the model does not know.  checked records, for every   *)
(* node description scanned so far, the set of rules whose check() passes; *)
(* the first scan of a description draws it from CheckOutcomes.            *)
(***************************************************************************)
trait_extractors ==
  <<"AnyOfObject", "OneOfObject", "AllOfObject", "RefObject", "RefTrait",
    "Not", "AnyOf", "AllOf", "OneOf", "NamedEnum", "Enum",
    "SimpleType", "CompoundType", "Array", "EmptySchema", "Object">>

RuleCount == Len(trait_extractors)

\* the sets of passing rules the model draws from: none, one rule, two
\* neighbours in the list, and the two ends of the list
CheckOutcomes ==
  { {},
    {trait_extractors[11]},
    {trait_extractors[4], trait_extractors[5]},
    {trait_extractors[1], trait_extractors[RuleCount]} }

\* what check() may depend on
Desc(o) == [schema |-> o.schema, name |-> o.name, isroot |-> is_root(o)]

Outcomes(d) == IF d \in DOMAIN checked THEN {checked[d]} ELSE CheckOutcomes

\* the variant of the scan without its break: the last passing rule is kept
RECURSIVE ScanNoBreak(_, _)
ScanNoBreak(i, passing) ==
  IF i > RuleCount THEN [found |-> 0, checks |-> <<>>]
  ELSE LET rest == ScanNoBreak(i + 1, passing)
       IN  [found |-> IF rest.found # 0 THEN rest.found
                      ELSE IF trait_extractors[i] \in passing THEN i ELSE 0,
            checks |-> <<trait_extractors[i]>> \o rest.checks]

\* "for TraitExtractor in self.trait_extractors: if check(): ... break", from
\* the i-th rule on: the index of the rule kept (0 when the loop runs out)
\* and the rules whose check() ran
RECURSIVE Scan(_, _)
Scan(i, passing) ==
  IF i > RuleCount THEN [found |-> 0, checks |-> <<>>]
  ELSE IF trait_extractors[i] \in passing
       THEN [found |-> i, checks |-> <<trait_extractors[i]>>]
       ELSE LET rest == Scan(i + 1, passing)
            IN  [found |-> rest.found, checks |-> <<trait_extractors[i]>> \o rest.checks]

\* tuple(self.schema.keys())
SchemaKeys(o) == DOMAIN Schema(o).map

\* a query of trait_extractor that has to scan
ScanQuery(n, call) ==
  \E passing \in Outcomes(Desc(ObjOf(n))) :
    LET r == Scan(1, passing)
    IN  /\ checked' = (Desc(ObjOf(n)) :> passing) @@ checked
        /\ IF r.found # 0
           THEN LET x == Some([rule |-> trait_extractors[r.found], id |-> nextId])
                IN  /\ nodes' = [nodes EXCEPT ![n].cache = x]
                    /\ nextId' = nextId + 1
                    /\ ret' = [call EXCEPT !.rule = x, !.checks = r.checks]
           ELSE /\ ret' = [call EXCEPT !.out = "ValueError", !.checks = r.checks,
                                       !.keys = SchemaKeys(ObjOf(n))]
                /\ UNCHANGED <<nodes, nextId>>
        /\ UNCHANGED <<doc, objs>>

\* the variant of trait_extractor that never looks at _trait_extractor
TraitExtractorNoCache(n) ==
  ScanQuery(n, [NoRet EXCEPT !.op = "trait_extractor", !.self = n])

\* the trait_extractor property
TraitExtractorCall(n) ==
  LET call == [NoRet EXCEPT !.op = "trait_extractor", !.self = n]
  IN  IF nodes[n].cache # None
      THEN /\ ret' = [call EXCEPT !.rule = nodes[n].cache]
           /\ UNCHANGED <<doc, objs, nodes, checked, nextId>>
      ELSE ScanQuery(n, call)

DispatchDocs == {DocEnum}

DispatchRefs == {sHash, Join(<<sHash, sDefinitions, sFoo>>)}

InitDispatch == InitWith(DispatchDocs)

NextDispatch ==
  \/ \E n \in DOMAIN nodes : \E ref \in DispatchRefs : GetReferenceCall(n, ref)
  \/ \E n \in DOMAIN nodes : TraitExtractorCall(n)

SpecDispatch == InitDispatch /\ [][NextDispatch]_vars

(***************************************************************************)
(* Claims about dispatch.                                                  *)
(***************************************************************************)
RuleIndex(name) == CHOOSE i \in 1..RuleCount : trait_extractors[i] = name

\* C4: a dispatch query returns an instance of the first rule of the list
\* whose check() passes for the node, and when none passes it fails with
\* ValueError carrying the top-level keys of the node's schema.
C4_FirstPassingRule ==
  ret.op = "trait_extractor" =>
    LET o == ObjOf(ret.self)
        passing == checked[Desc(o)]
    IN  IF passing = {}
        THEN /\ ret.out = "ValueError"
             /\ ret.rule = None
             /\ ret.keys = DOMAIN At(doc, o.schema).map
        ELSE /\ ret.out = "ok"
             /\ ret.rule # None
             /\ ret.rule[1].rule \in passing
             /\ \A r \in passing : RuleIndex(ret.rule[1].rule) <= RuleIndex(r)

\* C4 witness: two rules pass and the query has returned one of them.
C4_Witness ==
  /\ ret.op = "trait_extractor"
  /\ ret.out = "ok"
  /\ Cardinality(checked[Desc(ObjOf(ret.self))]) = 2

IsQuery(r, i) == r.op = "trait_extractor" /\ r.self = i

\* C5: the result of dispatch is kept per node instance.  A query on an
\* instance that holds a result returns that very rule object and runs no
\* check(); the result an instance holds never changes; a new instance holds
\* none; and a query on an instance that holds none runs the checks, whatever
\* other instances of the same subtree hold.
C5_MemoizedPerInstance ==
  [][ /\ \A i \in DOMAIN nodes :
           nodes[i].cache # None =>
             /\ nodes'[i].cache = nodes[i].cache
             /\ IsQuery(ret', i) =>
                  /\ ret'.out = "ok"
                  /\ ret'.rule = nodes[i].cache
                  /\ ret'.checks = <<>>
      /\ \A i \in DOMAIN nodes :
           (nodes[i].cache = None /\ IsQuery(ret', i)) =>
             /\ ret'.checks # <<>>
             /\ ret'.out = "ok" => (ret'.rule # None /\ nodes'[i].cache = ret'.rule)
      /\ \A i \in DOMAIN nodes' \ DOMAIN nodes : nodes'[i].cache = None
    ]_vars

\* C5 witness: a query answered from the instance's own result, while
\* another wrapper of the same schema object holds a rule object of its own.
C5_Witness ==
  /\ ret.op = "trait_extractor"
  /\ ret.out = "ok"
  /\ ret.checks = <<>>
  /\ \E j \in DOMAIN nodes :
       /\ j # ret.self
       /\ nodes[j].obj = nodes[ret.self].obj
       /\ nodes[j].cache # None
       /\ nodes[j].cache # nodes[ret.self].cache
       /\ nodes[j].cache[1].rule = nodes[ret.self].cache[1].rule

(***************************************************************************)
(* Import aggregation.  trait_imports() and import_statement() of a rule   *)
(* are answers of the rule set: an object_imports call draws, for every    *)
(* node it wraps on the way, the rules that pass and what the first of     *)
(* them answers, and ret.ext records what was drawn.                       *)
(***************************************************************************)
basic_imports ==
  << <<"i", "m", "p", "o", "r", "t", " ", "t", "r", "a", "i", "t", "l", "e", "t", "s",
       " ", "a", "s", " ", "T">>,
     <<"f", "r", "o", "m", " ", ".", " ", "i", "m", "p", "o", "r", "t", " ",
       "j", "s", "t", "r", "a", "i", "t", "l", "e", "t", "s", " ", "a", "s", " ",
       "j", "s", "t">> >>

\* two import lines a rule may answer
sImportOs == <<"i", "m", "p", "o", "r", "t", " ", "o", "s">>
sFromAImportB ==
  <<"f", "r", "o", "m", " ", "a", " ", "i", "m", "p", "o", "r", "t", " ", "b">>

ImportLists ==
  {<<sFromAImportB, sImportOs>>, <<sImportOs, sImportOs>>, <<basic_imports[1]>>}

ImportStatements == {sImportOs, basic_imports[2]}

\* the answers of the rule set for one node
NoAnswer == [passing |-> {}, imports |-> <<>>]
Answers ==
  {[passing |-> {}, imports |-> <<>>]}
    \cup {[passing |-> {"Object"}, imports |-> l] : l \in ImportLists}
StatementAnswers ==
  {[passing |-> {}, imports |-> <<>>]}
    \cup {[passing |-> {"RefObject", "Object"}, imports |-> <<st>>] :
            st \in ImportStatements}

ListResult(e, l) == [out |-> e, list |-> l]

\* trait_imports of a fresh child node: the imports of the first passing rule
trait_imports(answer) ==
  IF Scan(1, answer.passing).found = 0 THEN ListResult("ValueError", <<>>)
  ELSE ListResult("ok", answer.imports)

\* import_statement of a fresh node: trait_extractor.import_statement()
import_statement(answer) ==
  IF Scan(1, answer.passing).found = 0 THEN ListResult("ValueError", <<>>)
  ELSE ListResult("ok", answer.imports)

\* __getattr__('properties'): self.schema.get('properties', {})
Properties(o) ==
  LET v == Schema(o)
  IN  IF sProperties \in DOMAIN v.map /\ v.map[sProperties].kind = "map"
      THEN v.map[sProperties].map
      ELSE NoMap

\* __getattr__('additionalProperties'): self.schema.get(..., True)
AdditionalProperties(o) ==
  LET v == Schema(o)
  IN  IF sAdditionalProperties \in DOMAIN v.map
      THEN v.map[sAdditionalProperties]
      ELSE Bool(TRUE)

\* utils.trait_name_map(sorted names): identifier -> property name, for the
\* names that are no identifiers; an identifier already in use gets "_"
\* appended until it is free
RECURSIVE FreshIdent(_, _)
FreshIdent(id, taken) ==
  IF id \in taken THEN FreshIdent(Append(id, "_"), taken) ELSE id

RECURSIVE TraitNameMapFrom(_, _, _)
TraitNameMapFrom(names, taken, acc) ==
  IF names = <<>> THEN acc
  ELSE IF regularize_name(names[1]) = names[1]
       THEN TraitNameMapFrom(Tail(names), taken, acc)
       ELSE LET id == FreshIdent(regularize_name(names[1]), taken)
            IN  TraitNameMapFrom(Tail(names), taken \cup {id},
                                 Append(acc, [key |-> id, val |-> names[1]]))

trait_name_map(names) ==
  TraitNameMapFrom(names, {n \in Range(names) : regularize_name(n) = n}, <<>>)

\* trait_map
trait_map(o) == trait_name_map(SortedStrs(DOMAIN Properties(o)))

\* wrapped_properties(): key -> the property whose schema the child wraps
wrapped_properties(o) ==
  LET tm == trait_map(o)
      names == SortedStrs(DOMAIN Properties(o))
      \* reverse_map.get(name, name)
      KeyOf(name) == IF \E i \in 1..Len(tm) : tm[i].val = name
                     THEN tm[CHOOSE i \in 1..Len(tm) : tm[i].val = name].key
                     ELSE name
  IN  OrderedDict([i \in 1..Len(names) |-> [key |-> KeyOf(names[i]), val |-> names[i]]])

\* "for trait in self.wrapped_properties().values(): imports.extend(...)"
RECURSIVE ExtendWithProperties(_, _, _)
ExtendWithProperties(imports, wrapped, answers) ==
  IF wrapped = <<>> THEN ListResult("ok", imports)
  ELSE LET t == trait_imports(answers[wrapped[1].val])
       IN  IF t.out # "ok" THEN t
           ELSE ExtendWithProperties(imports \o t.list, Tail(wrapped), answers)

\* the list object_imports builds before it sorts
CollectImports(o, ext) ==
  IF Schema(o).kind # "map" THEN ListResult("AttributeError", <<>>)
  ELSE
  LET a == IF AdditionalProperties(o).kind = "map"
           THEN trait_imports(ext.ap)
           ELSE ListResult("ok", <<>>)
      w == IF is_reference(o) THEN wrapped_ref(o) ELSE Return(o)
      r == IF is_reference(o) THEN import_statement(ext.ref)
           ELSE ListResult("ok", <<>>)
  IN  IF a.out # "ok" THEN a
      ELSE IF w.out # "ok" THEN ListResult(w.out, <<>>)
      ELSE IF r.out # "ok" THEN r
      ELSE ExtendWithProperties(basic_imports \o a.list \o r.list,
                                wrapped_properties(o), ext.props)

\* the variant of object_imports that sorts without reverse=True
ObjectImportsAscending(o, ext) ==
  LET c == CollectImports(o, ext)
  IN  IF c.out # "ok" THEN c ELSE ListResult("ok", SortedStrs(Range(c.list)))

\* object_imports: sorted(set(imports), reverse=True)
object_imports(o, ext) ==
  LET c == CollectImports(o, ext)
  IN  IF c.out # "ok" THEN c ELSE ListResult("ok", SortedStrsReverse(Range(c.list)))

\* the answers an object_imports call on o can get: one per node it wraps
ExtChoices(o) ==
  LET v == Schema(o)
  IN  [ap : IF v.kind = "map" /\ AdditionalProperties(o).kind = "map"
            THEN Answers ELSE {NoAnswer},
       ref : IF v.kind = "map" /\ is_reference(o) THEN StatementAnswers ELSE {NoAnswer},
       props : IF v.kind = "map" THEN [DOMAIN Properties(o) -> Answers] ELSE {NoMap}]

ObjectImportsCall(n) ==
  \E ext \in ExtChoices(ObjOf(n)) :
    LET r == object_imports(ObjOf(n), ext)
    IN  /\ ret' = [NoRet EXCEPT !.op = "object_imports", !.self = n, !.out = r.out,
                                !.list = r.list, !.ext = ext]
        /\ UNCHANGED <<doc, objs, nodes, checked, nextId>>

\* a mapping of the entries <<key, option>> whose option is present
OptMap(entries) ==
  Map([k \in {e[1] : e \in {x \in Range(entries) : x[2] # <<>>}} |->
         (CHOOSE e \in Range(entries) : e[1] = k)[2][1]])

sADashB == <<"a", "-", "b">>
sAUnderB == <<"a", "_", "b">>

ImportsDocs ==
  {OptMap(<< <<sDefinitions, <<Map1(sFoo, StringSchema)>> >>,
            <<sAdditionalProperties, ap>>,
            <<sRef, ref>>,
            <<sProperties, props>> >>) :
     ap \in {<<>>, <<Bool(TRUE)>>, <<StringSchema>>},
     ref \in {<<>>, <<RefTo(sFoo)>>, <<RefTo(sBaz)>>},
     props \in {<<>>, <<Map2(sA, StringSchema, sB, ObjectSchema)>>,
                <<Map2(sADashB, StringSchema, sAUnderB, StringSchema)>>}}

InitImports == InitWith(ImportsDocs)

NextImports == \E n \in DOMAIN nodes : ObjectImportsCall(n)

SpecImports == InitImports /\ [][NextImports]_vars

\* the properties of the node's schema, read from the document itself
NodeProperties(o) ==
  LET v == At(doc, o.schema)
  IN  IF sProperties \in DOMAIN v.map THEN DOMAIN v.map[sProperties].map ELSE {}

NodeHas(o, key) == key \in DOMAIN At(doc, o.schema).map

\* what the claim says object_imports holds, as a set
ExpectedImports(o, ext) ==
  Range(basic_imports)
    \cup (IF NodeHas(o, sAdditionalProperties)
             /\ At(doc, o.schema).map[sAdditionalProperties].kind = "map"
          THEN Range(ext.ap.imports) ELSE {})
    \cup (IF NodeHas(o, sRef) THEN Range(ext.ref.imports) ELSE {})
    \cup UNION {Range(ext.props[k].imports) : k \in NodeProperties(o)}

\* C9: when object_imports succeeds, its list has no duplicates, is in
\* reverse lexical order, holds both base imports, and is as a set the base
\* imports with the trait imports of a schema-valued additionalProperties,
\* the import statement of the $ref target of a reference, and the trait
\* imports of every property.
C9_ObjectImports ==
  (ret.op = "object_imports" /\ ret.out = "ok") =>
    /\ \A i, j \in 1..Len(ret.list) : i < j => StrLess(ret.list[j], ret.list[i])
    /\ \A i \in 1..Len(basic_imports) : basic_imports[i] \in Range(ret.list)
    /\ Range(ret.list) = ExpectedImports(ObjOf(ret.self), ret.ext)

\* C9 witness: a reference with a schema-valued additionalProperties and two
\* properties, where the same import came in more than once.
C9_Witness ==
  /\ ret.op = "object_imports"
  /\ ret.out = "ok"
  /\ NodeHas(ObjOf(ret.self), sRef)
  /\ ret.ext.ap.imports = <<sImportOs, sImportOs>>
  /\ Cardinality(NodeProperties(ObjOf(ret.self))) = 2
  /\ \E k \in NodeProperties(ObjOf(ret.self)) : ret.ext.props[k].imports = <<basic_imports[1]>>
  /\ Len(ret.list) = 4

====
